---- MODULE Spec2Model ----
(***************************************************************************)
(* A model of the cINN diagnostics (diagnostics.py) and of the training    *)
(* and sweep utilities (inn_utils.py).                                     *)
(*                                                                         *)
(* Numbers.  The code computes in floating point; the model computes the   *)
(* same quantities exactly, as rationals <<num, den>> in lowest terms with *)
(* den > 0, or as integers in a stated unit (thousandths for everything    *)
(* that np.round(., 3) produces).  A result that may be non-finite is a    *)
(* record [kind, val] with kind "finite", "nan" or "inf".  Arrays are      *)
(* 1-based sequences; index k of the model is index k-1 of the code.       *)
(*                                                                         *)
(* Four specifications share the module: SpecCal (calibration_error),      *)
(* SpecMetrics (rmse, R2, compute_metrics), SpecResim (resimulation_error) *)
(* and SpecTrain (train_loop_active, train_loop_dataset).  Each leaves     *)
(* the variables of the others at their idle values.                       *)
(***************************************************************************)
EXTENDS Integers, Sequences, FiniteSets

VARIABLES
    theta_samples,     \* (n_samples, n_test, n_params) array of posterior draws
    theta_test,        \* (n_test, n_params) array of true values
    alpha_resolution,  \* calibration_error: the number of credibility levels
    alphas,            \* calibration_error: the grid, numerators over AlphaDen
    cal_k,             \* calibration_error: current parameter (loop variable k)
    cal_i,             \* calibration_error: current level (loop variable i)
    alphas_in,         \* calibration_error: coverage per level, <<count, n_test>>
    cal_errs,          \* calibration_error: result per parameter, in thousandths
    cal_pc,            \* calibration_error: position ("idle", "loop", "done")
    r2_guard,          \* whether the installed r2_score answers NaN for fewer than two samples
    point_op,          \* rmse / R2: the call made last ("none", "rmse", "nrmse", "R2")
    point_out,         \* rmse / R2: the array it returned
    n_min,             \* compute_metrics: argument n_min
    n_max,             \* compute_metrics: argument n_max
    param_names,       \* compute_metrics: argument param_names
    has_transform,     \* compute_metrics: whether transform is not None
    ns,                \* compute_metrics: the sweep axis
    sw_idx,            \* compute_metrics: position of n_points in ns
    metrics,           \* compute_metrics: the metrics dictionary
    sim_calls,         \* compute_metrics: the n_trials of the simulate_fun calls made
    sample_calls,      \* compute_metrics: the number of model.sample calls made
    sw_data,           \* compute_metrics: <<theta_test, theta_samples>> of each finished condition
    sw_exc,            \* compute_metrics: the exception propagating out ("none" if none)
    sw_ret,            \* compute_metrics: the returned tuple, <<>> if nothing was returned
    sw_pc,             \* compute_metrics: position
    simulator,         \* resimulation_error: the simulator passed in
    sim_log,           \* resimulation_error: the parameter matrices the simulator was called with
    X_test_true,       \* resimulation_error: simulator output for theta_test
    X_test_est,        \* resimulation_error: simulator output for the posterior means
    resim_out,         \* resimulation_error: the returned median
    resim_pc,          \* resimulation_error: position
    loop,              \* training: which loop runs ("active", "dataset")
    iterations,        \* training: number of iterations (active) or batches in the dataset
    save_any,          \* train_loop_active: argument save_any
    batches,           \* training: per iteration, whether the (transformed) batch is non-empty
    p_bar_given,       \* training: whether p_bar is a progress bar (not None)
    it,                \* training: the loop counter (it of the active loop, bi + 1 of the dataset loop)
    cur_loss,          \* training: <<ml_loss, decay>> of the current iteration
    losses,            \* training: the losses dictionary
    fwd_count,         \* training: number of forward passes made
    opt_steps,         \* training: number of optimizer steps applied
    pbar_n,            \* training: number of p_bar.update(1) calls
    saved,             \* train_loop_active: iterations whose weights were saved, in order
    train_pc           \* training: position

inputVars == <<theta_samples, theta_test>>
calVars == <<alpha_resolution, alphas, cal_k, cal_i, alphas_in, cal_errs, cal_pc>>
pointVars == <<point_op, point_out>>
sweepVars == <<n_min, n_max, param_names, has_transform, ns, sw_idx, metrics,
               sim_calls, sample_calls, sw_data, sw_exc, sw_ret, sw_pc>>
resimVars == <<simulator, sim_log, X_test_true, X_test_est, resim_out, resim_pc>>
trainVars == <<loop, iterations, save_any, batches, p_bar_given, it, cur_loss,
               losses, fwd_count, opt_steps, pbar_n, saved, train_pc>>
vars == <<inputVars, calVars, r2_guard, pointVars, sweepVars, resimVars, trainVars>>

\* the idle values of each group
CalIdle ==
    /\ alpha_resolution = 1
    /\ alphas = <<>>
    /\ cal_k = 0
    /\ cal_i = 0
    /\ alphas_in = <<>>
    /\ cal_errs = <<>>
    /\ cal_pc = "idle"

PointIdle ==
    /\ point_op = "none"
    /\ point_out = <<>>

SweepIdle ==
    /\ n_min = 0
    /\ n_max = 0
    /\ param_names = <<>>
    /\ has_transform = FALSE
    /\ ns = <<>>
    /\ sw_idx = 0
    /\ metrics = <<>>
    /\ sim_calls = <<>>
    /\ sample_calls = 0
    /\ sw_data = <<>>
    /\ sw_exc = "none"
    /\ sw_ret = <<>>
    /\ sw_pc = "off"

ResimIdle ==
    /\ simulator = "none"
    /\ sim_log = <<>>
    /\ X_test_true = <<>>
    /\ X_test_est = <<>>
    /\ resim_out = <<>>
    /\ resim_pc = "off"

TrainIdle ==
    /\ loop = "none"
    /\ iterations = 0
    /\ save_any = 1
    /\ batches = <<>>
    /\ p_bar_given = TRUE
    /\ it = 0
    /\ cur_loss = <<>>
    /\ losses = [ml_loss |-> <<>>, decay |-> <<>>]
    /\ fwd_count = 0
    /\ opt_steps = 0
    /\ pbar_n = 0
    /\ saved = <<>>
    /\ train_pc = "off"

-----------------------------------------------------------------------------
(* Bounds of the model. *)

\* array entries are drawn from 0..MaxVal
MaxVal == 2
\* alpha_resolution is drawn from 1..MaxRes
MaxRes == 3

Values == 0..MaxVal

\* shapes <<n_samples, n_test, n_params>> of the arrays the diagnostics are run on
Shapes == {<<1, 1, 1>>, <<2, 1, 1>>, <<3, 1, 1>>, <<2, 2, 1>>, <<1, 1, 2>>}

SampleArrays(sh) == [1..sh[1] -> [1..sh[2] -> [1..sh[3] -> Values]]]
TruthArrays(sh) == [1..sh[2] -> [1..sh[3] -> Values]]

-----------------------------------------------------------------------------
(* Arithmetic helpers. *)

Abs(x) == IF x < 0 THEN -x ELSE x

RECURSIVE GCD(_, _)
GCD(a, b) == IF b = 0 THEN a ELSE GCD(b, a % b)

\* the rational n/d (d > 0) in lowest terms
Rat(n, d) == LET g == GCD(Abs(n), d) IN <<n \div g, d \div g>>

RECURSIVE SumSeq(_)
SumSeq(s) == IF s = <<>> THEN 0 ELSE Head(s) + SumSeq(Tail(s))

RECURSIVE Insert(_, _)
Insert(x, s) ==
    IF s = <<>> THEN <<x>>
    ELSE IF x <= Head(s) THEN <<x>> \o s
    ELSE <<Head(s)>> \o Insert(x, Tail(s))

RECURSIVE Sorted(_)
Sorted(s) == IF s = <<>> THEN <<>> ELSE Insert(Head(s), Sorted(Tail(s)))

\* np.round(n/d, 0) for n >= 0, d > 0: round half to even
RoundHalfEven(n, d) ==
    LET q == n \div d
        r == n % d
    IN  IF 2 * r < d THEN q
        ELSE IF 2 * r > d THEN q + 1
        ELSE IF q % 2 = 0 THEN q ELSE q + 1

\* digits kept by np.round(., 3)
Decimals == 3
Milli == 10 ^ Decimals

\* rational arithmetic on <<num, den>> pairs
RInt(n) == <<n, 1>>
RAdd(a, b) == Rat(a[1] * b[2] + b[1] * a[2], a[2] * b[2])
RSub(a, b) == Rat(a[1] * b[2] - b[1] * a[2], a[2] * b[2])
RMul(a, b) == Rat(a[1] * b[1], a[2] * b[2])
\* a / b for b # 0
RDiv(a, b) == IF b[1] > 0 THEN Rat(a[1] * b[2], a[2] * b[1])
              ELSE Rat(-(a[1] * b[2]), -(a[2] * b[1]))
RSq(a) == RMul(a, a)

RECURSIVE RSum(_)
RSum(s) == IF s = <<>> THEN RInt(0) ELSE RAdd(Head(s), RSum(Tail(s)))

\* np.mean of a sequence of rationals (of length >= 1)
RMean(s) == RDiv(RSum(s), RInt(Len(s)))

\* results that may be non-finite
Finite(r) == [kind |-> "finite", val |-> r]
NaN == [kind |-> "nan", val |-> RInt(0)]
Inf == [kind |-> "inf", val |-> RInt(0)]

SeqMax(s) == CHOOSE x \in {s[j] : j \in DOMAIN s} : \A j \in DOMAIN s : s[j] <= x
SeqMin(s) == CHOOSE x \in {s[j] : j \in DOMAIN s} : \A j \in DOMAIN s : x <= s[j]

-----------------------------------------------------------------------------
(* Shapes of the inputs. *)

n_samples == Len(theta_samples)
n_test == Len(theta_test)
n_params == Len(theta_test[1])

-----------------------------------------------------------------------------
(* calibration_error *)

\* np.linspace(0.01, 1.0, num): start and stop in hundredths
AlphaStart == 1
AlphaStop == 100
AlphaUnit == 100

\* the denominator shared by the levels of np.linspace(0.01, 1.0, num)
AlphaDen(num) == AlphaUnit * (IF num > 1 THEN num - 1 ELSE 1)

\* the grid started at 0 instead of 0.01
LinspaceFromZero(num) ==
    LET div == num - 1
    IN  [j \in 1..num |->
            IF div > 0
            THEN IF j = num THEN AlphaStop * div ELSE (j - 1) * AlphaStop
            ELSE 0]

\* np.linspace(0.01, 1.0, num): y = arange(num) * step + start with
\* step = (stop - start) / (num - 1) when num > 1, y = arange(num) * (stop - start)
\* + start otherwise, and the last entry set to stop when num > 1
Linspace(num) ==
    LET div == num - 1
    IN  [j \in 1..num |->
            IF div > 0
            THEN IF j = num THEN AlphaStop * div
                 ELSE AlphaStart * div + (j - 1) * (AlphaStop - AlphaStart)
            ELSE (j - 1) * (AlphaStop - AlphaStart) + AlphaStart]

\* lower = np.round(region / 2, 3) with region = 1 - alpha, in thousandths
LowerLevel(a, den) == RoundHalfEven(Milli * (den - a), 2 * den)

\* upper = np.round(1 - region / 2, 3), in thousandths
UpperLevel(a, den) == RoundHalfEven(Milli * (den + a), 2 * den)

\* theta_samples[:, t, k]: the draws of one test instance for one parameter
SampleColumn(t, k) == [s \in 1..n_samples |-> theta_samples[s][t][k]]

\* np.quantile(col, q) with linear interpolation, q in thousandths; the result
\* is in thousandths
Quantile(col, q) ==
    LET srt == Sorted(col)
        h == q * (Len(col) - 1)
        lo == h \div Milli
        frac == h % Milli
    IN  IF frac = 0 THEN Milli * srt[lo + 1]
        ELSE Milli * srt[lo + 1] + frac * (srt[lo + 2] - srt[lo + 1])

\* np.quantile(theta_samples[:, :, k], [lower, upper], axis=0).T: one
\* <<lower quantile, upper quantile>> pair per test instance
Quantiles(k, lower, upper) ==
    [t \in 1..n_test |->
        <<Quantile(SampleColumn(t, k), lower), Quantile(SampleColumn(t, k), upper)>>]

\* the comparison made with >= and <=
InlierIdClosed(k, quantiles) ==
    {t \in 1..n_test :
        Milli * theta_test[t][k] >= quantiles[t][1]
        /\ Milli * theta_test[t][k] <= quantiles[t][2]}

\* inlier_id = (theta_test[:, k] > quantiles[:, 0]) & (theta_test[:, k] < quantiles[:, 1])
InlierId(k, quantiles) ==
    {t \in 1..n_test :
        Milli * theta_test[t][k] > quantiles[t][1]
        /\ Milli * theta_test[t][k] < quantiles[t][2]}

\* the count left undivided
InliersAlphaUndivided(inlier_id) == <<Cardinality(inlier_id), 1>>

\* inliers_alpha = np.sum(inlier_id) / n_test, kept as <<count, n_test>>
InliersAlpha(inlier_id) == <<Cardinality(inlier_id), n_test>>

\* np.abs(alphas - alphas_in): numerators over the denominator den * n_test
DiffAlphas(as, ins, den) ==
    [j \in 1..Len(as) |-> Abs(as[j] * ins[j][2] - ins[j][1] * den)]

\* np.median(x) as the rational <<num, den>> over the unit of x, not reduced
Median(x) ==
    LET srt == Sorted(x)
        n == Len(x)
    IN  IF n % 2 = 1 THEN <<srt[(n + 1) \div 2], 1>>
        ELSE <<srt[n \div 2] + srt[n \div 2 + 1], 2>>

\* cal_err = np.round(np.median(diff_alphas), 3), in thousandths
CalErr(as, ins, den) ==
    LET m == Median(DiffAlphas(as, ins, den))
    IN  RoundHalfEven(Milli * m[1], m[2] * den * n_test)

\* np.zeros(n)
Zeros(n) == [j \in 1..n |-> 0]

notCal == <<r2_guard, pointVars, sweepVars, resimVars, trainVars>>

CalInit ==
    /\ \E sh \in Shapes :
        /\ theta_samples \in SampleArrays(sh)
        /\ theta_test \in TruthArrays(sh)
    /\ alpha_resolution \in 1..MaxRes
    /\ alphas = <<>>
    /\ cal_k = 0
    /\ cal_i = 0
    /\ alphas_in = <<>>
    /\ cal_errs = <<>>
    /\ cal_pc = "idle"
    /\ r2_guard = FALSE
    /\ PointIdle /\ SweepIdle /\ ResimIdle /\ TrainIdle

\* lines 28-31 and the first pass of line 35
CalStart ==
    /\ cal_pc = "idle"
    /\ alphas' = Linspace(alpha_resolution)
    /\ cal_errs' = Zeros(n_params)
    /\ cal_k' = 1
    /\ cal_i' = 1
    /\ alphas_in' = [j \in 1..alpha_resolution |-> <<0, 1>>]
    /\ cal_pc' = "loop"
    /\ UNCHANGED <<notCal, inputVars, alpha_resolution>>

\* one pass of the loop over alpha, lines 37-50
CalAlpha ==
    /\ cal_pc = "loop"
    /\ cal_k <= n_params
    /\ cal_i <= Len(alphas)
    /\ LET den == AlphaDen(alpha_resolution)
           lower == LowerLevel(alphas[cal_i], den)
           upper == UpperLevel(alphas[cal_i], den)
           quantiles == Quantiles(cal_k, lower, upper)
           inlier_id == InlierId(cal_k, quantiles)
       IN  alphas_in' = [alphas_in EXCEPT ![cal_i] = InliersAlpha(inlier_id)]
    /\ cal_i' = cal_i + 1
    /\ UNCHANGED <<notCal, inputVars, alpha_resolution, alphas, cal_k, cal_errs, cal_pc>>

\* the end of one pass of the loop over k, lines 53-55, and line 35 of the next
CalParam ==
    /\ cal_pc = "loop"
    /\ cal_k <= n_params
    /\ cal_i > Len(alphas)
    /\ cal_errs' = [cal_errs EXCEPT
                      ![cal_k] = CalErr(alphas, alphas_in, AlphaDen(alpha_resolution))]
    /\ cal_k' = cal_k + 1
    /\ cal_i' = 1
    /\ alphas_in' = IF cal_k < n_params
                    THEN [j \in 1..alpha_resolution |-> <<0, 1>>]
                    ELSE alphas_in
    /\ UNCHANGED <<notCal, inputVars, alpha_resolution, alphas, cal_pc>>

\* line 57
CalReturn ==
    /\ cal_pc = "loop"
    /\ cal_k > n_params
    /\ cal_pc' = "done"
    /\ UNCHANGED <<notCal, inputVars, alpha_resolution, alphas, cal_k, cal_i, alphas_in, cal_errs>>

CalNext == CalStart \/ CalAlpha \/ CalParam \/ CalReturn

SpecCal == CalInit /\ [][CalNext]_vars

-----------------------------------------------------------------------------
(* rmse, R2 *)

\* samples.mean(axis=0): the mean over the sample axis
MeanOverSamples(samples) ==
    [t \in 1..Len(samples[1]) |->
        [k \in 1..Len(samples[1][t]) |->
            Rat(SumSeq([s \in 1..Len(samples) |-> samples[s][t][k]]), Len(samples))]]

\* theta_approx_means = theta_samples.mean(0)
PosteriorMean == MeanOverSamples(theta_samples)

\* column k of a matrix
Column(m, k) == [t \in 1..Len(m) |-> m[t][k]]

\* np.mean((est - truth) ** 2) over the test instances, the square of the RMSE
MeanSquaredError(est, truth) ==
    RMean([t \in 1..Len(truth) |-> RSq(RSub(est[t], RInt(truth[t])))])

\* a zero range leaves the RMSE as it is
DivideByRangeGuarded(sq, truth) ==
    LET range == SeqMax(truth) - SeqMin(truth)
    IN  IF range = 0 THEN Finite(sq)
        ELSE Finite(RDiv(sq, RInt(range * range)))

\* rmse / (theta_test.max() - theta_test.min()), on the square sq of the RMSE:
\* a numpy division, which answers nan for 0/0 and inf for x/0 instead of raising
DivideByRange(sq, truth) ==
    LET range == SeqMax(truth) - SeqMin(truth)
    IN  IF range = 0 THEN (IF sq[1] = 0 THEN NaN ELSE Inf)
        ELSE Finite(RDiv(sq, RInt(range * range)))

\* rmse(theta_samples, theta_test, normalized): per parameter, val is the
\* square of the value returned
Rmse(normalized) ==
    [k \in 1..n_params |->
        LET sq == MeanSquaredError(Column(PosteriorMean, k), Column(theta_test, k))
        IN  IF normalized THEN DivideByRange(sq, Column(theta_test, k))
            ELSE Finite(sq)]

\* 1 - numerator / denominator with no special case
R2ScorePlain(y_true, y_pred) ==
    LET numerator == RSum([t \in 1..Len(y_true) |-> RSq(RSub(RInt(y_true[t]), y_pred[t]))])
        avg == RMean([t \in 1..Len(y_true) |-> RInt(y_true[t])])
        denominator == RSum([t \in 1..Len(y_true) |-> RSq(RSub(RInt(y_true[t]), avg))])
    IN  IF denominator[1] = 0 THEN NaN
        ELSE Finite(RSub(RInt(1), RDiv(numerator, denominator)))

\* sklearn.metrics.r2_score for one output column: 1 - numerator / denominator
\* where both are non-zero, 0.0 where only the denominator is zero, 1.0 where
\* the numerator is zero; releases with the fewer-than-two-samples check answer
\* NaN (with a warning) for a single sample
R2Score(y_true, y_pred) ==
    LET numerator == RSum([t \in 1..Len(y_true) |-> RSq(RSub(RInt(y_true[t]), y_pred[t]))])
        avg == RMean([t \in 1..Len(y_true) |-> RInt(y_true[t])])
        denominator == RSum([t \in 1..Len(y_true) |-> RSq(RSub(RInt(y_true[t]), avg))])
    IN  IF r2_guard /\ Len(y_true) < 2 THEN NaN
        ELSE IF denominator[1] # 0 /\ numerator[1] # 0
             THEN Finite(RSub(RInt(1), RDiv(numerator, denominator)))
        ELSE IF numerator[1] # 0 THEN Finite(RInt(0))
        ELSE Finite(RInt(1))

\* R2(theta_samples, theta_test): r2_score(..., multioutput='raw_values'); the
\* one NaN that a release with the fewer-than-two-samples check returns for
\* the whole call is reported here for every parameter
R2 == [k \in 1..n_params |-> R2Score(Column(theta_test, k), Column(PosteriorMean, k))]

notPoint == <<calVars, sweepVars, resimVars, trainVars>>

PointInit ==
    /\ \E sh \in Shapes :
        /\ theta_samples \in SampleArrays(sh)
        /\ theta_test \in TruthArrays(sh)
    /\ r2_guard \in BOOLEAN
    /\ PointIdle
    /\ CalIdle /\ SweepIdle /\ ResimIdle /\ TrainIdle

\* a call of rmse
CallRmse ==
    /\ sw_pc = "off"
    /\ \E normalized \in BOOLEAN :
        /\ point_op' = IF normalized THEN "nrmse" ELSE "rmse"
        /\ point_out' = Rmse(normalized)
    /\ UNCHANGED <<notPoint, inputVars, r2_guard>>

\* a call of R2
CallR2 ==
    /\ sw_pc = "off"
    /\ point_op' = "R2"
    /\ point_out' = R2
    /\ UNCHANGED <<notPoint, inputVars, r2_guard>>

-----------------------------------------------------------------------------
(* compute_metrics *)

\* the sweep runs over at most MaxConditions values of n_points
MaxConditions == 2

\* the n_min values tried
NMins == {2}

\* the lists of parameter names tried
ParamNameLists == {<<>>, <<"a">>, <<"a", "b">>, <<"a", "a">>, <<"a", "b", "c">>}

\* what simulate_fun (and transform) may hand back as theta_test: two test
\* instances with a zero-range second parameter, two with no zero range, and
\* a single test instance
SweepTruths == { <<<<0, 1>>, <<2, 1>>>>, <<<<0, 0>>, <<1, 2>>>>, <<<<1, 1>>>> }

ZeroLike(tt) == [t \in 1..Len(tt) |-> [k \in 1..Len(tt[t]) |-> 0]]
Twice(tt) == [t \in 1..Len(tt) |-> [k \in 1..Len(tt[t]) |-> 2 * tt[t][k]]]

\* what model.sample may hand back for the data of theta_test = tt: one draw
\* equal to tt, two draws whose mean is tt, one draw of zeros
SweepSamples(tt) == { <<tt>>, <<ZeroLike(tt), Twice(tt)>>, <<ZeroLike(tt)>> }

MetricNames == {"nrmse", "r2", "var"}

NamesOf(names) == {names[j] : j \in DOMAIN names}

\* the axis one entry short
ArangeOpen(lo, hi) == [j \in 1..(IF hi - 1 > lo THEN hi - 1 - lo ELSE 0) |-> lo + j - 1]

\* np.arange(lo, hi): lo, lo + 1, ..., hi - 1
Arange(lo, hi) == [j \in 1..(IF hi > lo THEN hi - lo ELSE 0) |-> lo + j - 1]

\* np.var(x, ddof=1) of a sequence of rationals: nan for a single entry
VarDdof1(x) ==
    LET mean == RMean(x)
        ss == RSum([t \in 1..Len(x) |-> RSq(RSub(x[t], mean))])
    IN  IF Len(x) = 1 THEN NaN ELSE Finite(RDiv(ss, RInt(Len(x) - 1)))

\* lines 196 and 202-207 for parameter j: the three values appended, given
\* theta_test = tt and the draws ts of model.sample
SweepValuesOf(tt, ts, j) ==
    LET est == Column(MeanOverSamples(ts), j)
        truth == Column(tt, j)
    IN  [nrmse |-> DivideByRange(MeanSquaredError(est, truth), truth),
         r2 |-> R2Score(truth, est),
         var |-> VarDdof1(est)]

\* lines 199-211: the loop over enumerate(param_names), from position j to last
RECURSIVE RecordParams(_, _, _)
RecordParams(m, j, last) ==
    IF j > last THEN m
    ELSE LET v == SweepValuesOf(theta_test, theta_samples, j)
             name == param_names[j]
         IN  RecordParams([m EXCEPT !["nrmse"][name] = Append(@, v.nrmse),
                                    !["r2"][name] = Append(@, v.r2),
                                    !["var"][name] = Append(@, v.var)], j + 1, last)

notSweep == <<calVars, pointVars, resimVars, trainVars>>
sweepArgs == <<n_min, n_max, param_names, has_transform>>

SweepInit ==
    /\ theta_samples = <<>>
    /\ theta_test = <<>>
    /\ r2_guard \in BOOLEAN
    /\ n_min \in NMins
    /\ n_max \in (n_min - 1)..(n_min + MaxConditions - 1)
    /\ param_names \in ParamNameLists
    /\ has_transform \in BOOLEAN
    /\ ns = <<>>
    /\ sw_idx = 0
    /\ metrics = <<>>
    /\ sim_calls = <<>>
    /\ sample_calls = 0
    /\ sw_data = <<>>
    /\ sw_exc = "none"
    /\ sw_ret = <<>>
    /\ sw_pc = "idle"
    /\ PointIdle /\ CalIdle /\ ResimIdle /\ TrainIdle

\* lines 181-186
SweepStart ==
    /\ sw_pc = "idle"
    /\ ns' = Arange(n_min, n_max + 1)
    /\ metrics' = [m \in MetricNames |-> [name \in NamesOf(param_names) |-> <<>>]]
    /\ sw_idx' = 1
    /\ sw_pc' = "simulate"
    /\ UNCHANGED <<notSweep, inputVars, r2_guard, sweepArgs, sim_calls, sample_calls,
                   sw_data, sw_exc, sw_ret>>

\* line 190, simulate_fun returns
SweepSimulate ==
    /\ sw_pc = "simulate"
    /\ sw_idx <= Len(ns)
    /\ sim_calls' = Append(sim_calls, ns[sw_idx])
    /\ theta_test' \in SweepTruths
    /\ sw_pc' = IF has_transform THEN "transform" ELSE "sample"
    /\ UNCHANGED <<notSweep, theta_samples, r2_guard, sweepArgs, ns, sw_idx, metrics,
                   sample_calls, sw_data, sw_exc, sw_ret>>

\* the exception is caught and the sweep goes on with the next condition
SweepSimulateSwallowed ==
    /\ sw_pc = "simulate"
    /\ sw_idx <= Len(ns)
    /\ sim_calls' = Append(sim_calls, ns[sw_idx])
    /\ sw_exc' = "simulate_fun"
    /\ sw_idx' = sw_idx + 1
    /\ UNCHANGED <<notSweep, inputVars, r2_guard, sweepArgs, ns, metrics,
                   sample_calls, sw_data, sw_ret, sw_pc>>

\* line 190, simulate_fun raises: nothing catches it
SweepSimulateRaises ==
    /\ sw_pc = "simulate"
    /\ sw_idx <= Len(ns)
    /\ sim_calls' = Append(sim_calls, ns[sw_idx])
    /\ sw_exc' = "simulate_fun"
    /\ sw_pc' = "raised"
    /\ UNCHANGED <<notSweep, inputVars, r2_guard, sweepArgs, ns, sw_idx, metrics,
                   sample_calls, sw_data, sw_ret>>

\* lines 191-192, transform returns
SweepTransform ==
    /\ sw_pc = "transform"
    /\ theta_test' \in {tt \in SweepTruths : Len(tt) = Len(theta_test)}
    /\ sw_pc' = "sample"
    /\ UNCHANGED <<notSweep, theta_samples, r2_guard, sweepArgs, ns, sw_idx, metrics,
                   sim_calls, sample_calls, sw_data, sw_exc, sw_ret>>

\* lines 191-192, transform raises
SweepTransformRaises ==
    /\ sw_pc = "transform"
    /\ sw_exc' = "transform"
    /\ sw_pc' = "raised"
    /\ UNCHANGED <<notSweep, inputVars, r2_guard, sweepArgs, ns, sw_idx, metrics,
                   sim_calls, sample_calls, sw_data, sw_ret>>

\* line 196, model.sample returns
SweepSample ==
    /\ sw_pc = "sample"
    /\ sample_calls' = sample_calls + 1
    /\ theta_samples' \in SweepSamples(theta_test)
    /\ sw_pc' = "record"
    /\ UNCHANGED <<notSweep, theta_test, r2_guard, sweepArgs, ns, sw_idx, metrics,
                   sim_calls, sw_data, sw_exc, sw_ret>>

\* line 196, model.sample raises
SweepSampleRaises ==
    /\ sw_pc = "sample"
    /\ sample_calls' = sample_calls + 1
    /\ sw_exc' = "sample"
    /\ sw_pc' = "raised"
    /\ UNCHANGED <<notSweep, inputVars, r2_guard, sweepArgs, ns, sw_idx, metrics,
                   sim_calls, sw_data, sw_ret>>

\* lines 199-211 with no more names than parameters
SweepRecord ==
    /\ sw_pc = "record"
    /\ Len(param_names) <= n_params
    /\ metrics' = RecordParams(metrics, 1, Len(param_names))
    /\ sw_data' = Append(sw_data, <<theta_test, theta_samples>>)
    /\ sw_idx' = sw_idx + 1
    /\ sw_pc' = "simulate"
    /\ UNCHANGED <<notSweep, inputVars, r2_guard, sweepArgs, ns, sim_calls,
                   sample_calls, sw_exc, sw_ret>>

\* lines 199-211 with more names than parameters: theta_approx_means[:, j]
\* raises IndexError at the first j past the last column, after the values of
\* the columns before it were appended
SweepRecordRaises ==
    /\ sw_pc = "record"
    /\ Len(param_names) > n_params
    /\ metrics' = RecordParams(metrics, 1, n_params)
    /\ sw_exc' = "IndexError"
    /\ sw_pc' = "raised"
    /\ UNCHANGED <<notSweep, inputVars, r2_guard, sweepArgs, ns, sw_idx,
                   sim_calls, sample_calls, sw_data, sw_ret>>

\* line 212
SweepReturn ==
    /\ sw_pc = "simulate"
    /\ sw_idx > Len(ns)
    /\ sw_ret' = <<ns, metrics>>
    /\ sw_pc' = "done"
    /\ UNCHANGED <<notSweep, inputVars, r2_guard, sweepArgs, ns, sw_idx, metrics,
                   sim_calls, sample_calls, sw_data, sw_exc>>

SweepNext ==
    \/ SweepStart
    \/ SweepSimulate
    \/ SweepSimulateRaises
    \/ SweepTransform
    \/ SweepTransformRaises
    \/ SweepSample
    \/ SweepSampleRaises
    \/ SweepRecord
    \/ SweepRecordRaises
    \/ SweepReturn

MetricsInit == PointInit \/ SweepInit

MetricsNext == CallRmse \/ CallR2 \/ SweepNext

SpecMetrics == MetricsInit /\ [][MetricsNext]_vars

-----------------------------------------------------------------------------
(* resimulation_error *)

\* the simulators tried: "copy" returns two points per instance, the
\* parameter row and its double; "zero" returns one point of zeros whatever
\* the parameters; "noisy" is stochastic: to the row it adds a draw that
\* differs from one call to the next
Simulators == {"copy", "zero", "noisy"}
Deterministic == {"copy", "zero"}

\* the output of simulator(params) at its calls-th call: per instance, a
\* sequence of points
Simulate(sim, params, calls) ==
    [t \in 1..Len(params) |->
        IF sim = "copy"
        THEN << params[t], [k \in 1..Len(params[t]) |-> RMul(RInt(2), params[t][k])] >>
        ELSE IF sim = "zero"
        THEN << [k \in 1..Len(params[t]) |-> RInt(0)] >>
        ELSE << [k \in 1..Len(params[t]) |-> RAdd(params[t][k], RInt(calls))] >>]

\* theta_test as the simulator sees it
TruthMatrix == [t \in 1..n_test |-> [k \in 1..n_params |-> RInt(theta_test[t][k])]]

\* the first draw taken for the posterior mean
FirstDraw == [t \in 1..n_test |-> [k \in 1..n_params |-> RInt(theta_samples[1][t][k])]]

\* line 129: theta_approx_means = theta_samples.mean(0)
ResimEstimate == PosteriorMean

\* how often point x occurs in the point set A
CountIn(A, x) == Cardinality({j \in DOMAIN A : A[j] = x})

\* maximum_mean_discrepancy(A, B): 0 when the two point sets are the same
\* empirical distribution, positive (1 here) otherwise
MaximumMeanDiscrepancy(A, B) ==
    IF /\ \A j \in DOMAIN A : CountIn(A, A[j]) * Len(B) = CountIn(B, A[j]) * Len(A)
       /\ \A j \in DOMAIN B : CountIn(A, B[j]) * Len(B) = CountIn(B, B[j]) * Len(A)
    THEN 0 ELSE 1

\* line 137
Mmds == [t \in 1..n_test |-> MaximumMeanDiscrepancy(X_test_true[t], X_test_est[t])]

notResim == <<calVars, r2_guard, pointVars, sweepVars, trainVars>>

ResimInit ==
    /\ \E sh \in Shapes :
        /\ theta_samples \in SampleArrays(sh)
        /\ theta_test \in TruthArrays(sh)
    /\ simulator \in Simulators
    /\ sim_log = <<>>
    /\ X_test_true = <<>>
    /\ X_test_est = <<>>
    /\ resim_out = <<>>
    /\ resim_pc = "true"
    /\ r2_guard = FALSE
    /\ CalIdle /\ PointIdle /\ SweepIdle /\ TrainIdle

\* line 133
ResimSimulateTrue ==
    /\ resim_pc = "true"
    /\ X_test_true' = Simulate(simulator, TruthMatrix, Len(sim_log))
    /\ sim_log' = Append(sim_log, TruthMatrix)
    /\ resim_pc' = "est"
    /\ UNCHANGED <<notResim, inputVars, simulator, X_test_est, resim_out>>

\* line 134
ResimSimulateEst ==
    /\ resim_pc = "est"
    /\ X_test_est' = Simulate(simulator, ResimEstimate, Len(sim_log))
    /\ sim_log' = Append(sim_log, ResimEstimate)
    /\ resim_pc' = "mmd"
    /\ UNCHANGED <<notResim, inputVars, simulator, X_test_true, resim_out>>

\* lines 137-138
ResimReturn ==
    /\ resim_pc = "mmd"
    /\ resim_out' = <<Rat(Median(Mmds)[1], Median(Mmds)[2])>>
    /\ resim_pc' = "done"
    /\ UNCHANGED <<notResim, inputVars, simulator, sim_log, X_test_true, X_test_est>>

ResimNext == ResimSimulateTrue \/ ResimSimulateEst \/ ResimReturn

SpecResim == ResimInit /\ [][ResimNext]_vars

-----------------------------------------------------------------------------
(* train_loop_active, train_loop_dataset *)

\* at most MaxIterations iterations (active loop) or batches (dataset loop)
MaxIterations == 4
\* save_any is drawn from 1..MaxSaveAny
MaxSaveAny == 2

\* the <<ml_loss, decay>> pairs a forward pass may produce
LossPairs == {<<1, 0>>, <<2, 1>>}

\* the test made on a zero-based counter
ShouldSaveZeroBased(i, n) == (i - 1) % n = 0

\* line 84: it % save_any == 0
ShouldSave(i, n) == i % n = 0

notTrain == <<inputVars, calVars, r2_guard, pointVars, sweepVars, resimVars>>
trainArgs == <<loop, iterations, save_any, batches, p_bar_given>>

\* train_loop_active documents p_bar as a progress bar; train_loop_dataset
\* documents "ProgressBar or None", and None is its default
TrainInit ==
    /\ loop \in {"active", "dataset"}
    /\ iterations \in 0..MaxIterations
    /\ batches \in [1..iterations -> BOOLEAN]
    /\ save_any \in (IF loop = "active" THEN 1..MaxSaveAny ELSE {1})
    /\ p_bar_given \in (IF loop = "active" THEN {TRUE} ELSE BOOLEAN)
    /\ it = 1
    /\ cur_loss = <<>>
    /\ losses = [ml_loss |-> <<>>, decay |-> <<>>]
    /\ fwd_count = 0
    /\ opt_steps = 0
    /\ pbar_n = 0
    /\ saved = <<>>
    /\ train_pc = "top"
    /\ theta_samples = <<>>
    /\ theta_test = <<>>
    /\ r2_guard = FALSE
    /\ CalIdle /\ PointIdle /\ SweepIdle /\ ResimIdle

\* the progress bar advanced before the empty batch is skipped
ActiveSkipEmptyAdvancesBar ==
    /\ loop = "active"
    /\ train_pc = "top"
    /\ it <= iterations
    /\ ~batches[it]
    /\ it' = it + 1
    /\ pbar_n' = pbar_n + 1
    /\ UNCHANGED <<notTrain, trainArgs, cur_loss, losses, fwd_count, opt_steps,
                   saved, train_pc>>

\* lines 47-58 with an empty batch: continue
ActiveSkipEmpty ==
    /\ loop = "active"
    /\ train_pc = "top"
    /\ it <= iterations
    /\ ~batches[it]
    /\ it' = it + 1
    /\ UNCHANGED <<notTrain, trainArgs, cur_loss, losses, fwd_count, opt_steps,
                   pbar_n, saved, train_pc>>

\* lines 47-65 with a non-empty batch: the forward pass and the two losses
ActiveForward ==
    /\ loop = "active"
    /\ train_pc = "top"
    /\ it <= iterations
    /\ batches[it]
    /\ cur_loss' \in LossPairs
    /\ fwd_count' = fwd_count + 1
    /\ train_pc' = "store"
    /\ UNCHANGED <<notTrain, trainArgs, it, losses, opt_steps, pbar_n, saved>>

\* lines 68-69
ActiveStore ==
    /\ loop = "active"
    /\ train_pc = "store"
    /\ losses' = [ml_loss |-> Append(losses.ml_loss, cur_loss[1]),
                  decay |-> Append(losses.decay, cur_loss[2])]
    /\ train_pc' = "backprop"
    /\ UNCHANGED <<notTrain, trainArgs, it, cur_loss, fwd_count, opt_steps, pbar_n, saved>>

\* lines 72-75
ActiveBackprop ==
    /\ loop = "active"
    /\ train_pc = "backprop"
    /\ opt_steps' = opt_steps + 1
    /\ train_pc' = "progress"
    /\ UNCHANGED <<notTrain, trainArgs, it, cur_loss, losses, fwd_count, pbar_n, saved>>

\* lines 78-81
ActiveProgress ==
    /\ loop = "active"
    /\ train_pc = "progress"
    /\ pbar_n' = pbar_n + 1
    /\ train_pc' = "save"
    /\ UNCHANGED <<notTrain, trainArgs, it, cur_loss, losses, fwd_count, opt_steps, saved>>

\* lines 84-85 with it a multiple of save_any: save under a name carrying it
ActiveSave ==
    /\ loop = "active"
    /\ train_pc = "save"
    /\ ShouldSave(it, save_any)
    /\ saved' = Append(saved, it)
    /\ it' = it + 1
    /\ train_pc' = "top"
    /\ UNCHANGED <<notTrain, trainArgs, cur_loss, losses, fwd_count, opt_steps, pbar_n>>

\* line 84 with it no multiple of save_any
ActiveNoSave ==
    /\ loop = "active"
    /\ train_pc = "save"
    /\ ~ShouldSave(it, save_any)
    /\ it' = it + 1
    /\ train_pc' = "top"
    /\ UNCHANGED <<notTrain, trainArgs, cur_loss, losses, fwd_count, opt_steps,
                   pbar_n, saved>>

\* line 87
ActiveReturn ==
    /\ loop = "active"
    /\ train_pc = "top"
    /\ it > iterations
    /\ train_pc' = "done"
    /\ UNCHANGED <<notTrain, trainArgs, it, cur_loss, losses, fwd_count, opt_steps,
                   pbar_n, saved>>

\* lines 120-128 with an empty batch: continue
DatasetSkipEmpty ==
    /\ loop = "dataset"
    /\ train_pc = "top"
    /\ it <= iterations
    /\ ~batches[it]
    /\ it' = it + 1
    /\ UNCHANGED <<notTrain, trainArgs, cur_loss, losses, fwd_count, opt_steps,
                   pbar_n, saved, train_pc>>

\* lines 120-136 with a non-empty batch
DatasetForward ==
    /\ loop = "dataset"
    /\ train_pc = "top"
    /\ it <= iterations
    /\ batches[it]
    /\ cur_loss' \in LossPairs
    /\ fwd_count' = fwd_count + 1
    /\ train_pc' = "store"
    /\ UNCHANGED <<notTrain, trainArgs, it, losses, opt_steps, pbar_n, saved>>

\* lines 139-140
DatasetStore ==
    /\ loop = "dataset"
    /\ train_pc = "store"
    /\ losses' = [ml_loss |-> Append(losses.ml_loss, cur_loss[1]),
                  decay |-> Append(losses.decay, cur_loss[2])]
    /\ train_pc' = "backprop"
    /\ UNCHANGED <<notTrain, trainArgs, it, cur_loss, fwd_count, opt_steps, pbar_n, saved>>

\* lines 143-146
DatasetBackprop ==
    /\ loop = "dataset"
    /\ train_pc = "backprop"
    /\ opt_steps' = opt_steps + 1
    /\ train_pc' = "progress"
    /\ UNCHANGED <<notTrain, trainArgs, it, cur_loss, losses, fwd_count, pbar_n, saved>>

\* lines 149-152 with a progress bar
DatasetProgress ==
    /\ loop = "dataset"
    /\ train_pc = "progress"
    /\ p_bar_given
    /\ pbar_n' = pbar_n + 1
    /\ it' = it + 1
    /\ train_pc' = "top"
    /\ UNCHANGED <<notTrain, trainArgs, cur_loss, losses, fwd_count, opt_steps, saved>>

\* line 150 with p_bar = None: None.set_postfix_str raises AttributeError
DatasetProgressRaises ==
    /\ loop = "dataset"
    /\ train_pc = "progress"
    /\ ~p_bar_given
    /\ train_pc' = "raised"
    /\ UNCHANGED <<notTrain, trainArgs, it, cur_loss, losses, fwd_count, opt_steps,
                   pbar_n, saved>>

\* line 154
DatasetReturn ==
    /\ loop = "dataset"
    /\ train_pc = "top"
    /\ it > iterations
    /\ train_pc' = "done"
    /\ UNCHANGED <<notTrain, trainArgs, it, cur_loss, losses, fwd_count, opt_steps,
                   pbar_n, saved>>

TrainNext ==
    \/ ActiveSkipEmpty
    \/ ActiveForward
    \/ ActiveStore
    \/ ActiveBackprop
    \/ ActiveProgress
    \/ ActiveSave
    \/ ActiveNoSave
    \/ ActiveReturn
    \/ DatasetSkipEmpty
    \/ DatasetForward
    \/ DatasetStore
    \/ DatasetBackprop
    \/ DatasetProgress
    \/ DatasetProgressRaises
    \/ DatasetReturn

SpecTrain == TrainInit /\ [][TrainNext]_vars

-----------------------------------------------------------------------------
(* Properties of calibration_error, checked under SpecCal. *)

\* the levels recorded so far in alphas_in, and the parameter they belong to
CalRecordedParam == IF cal_k > n_params THEN n_params ELSE cal_k
CalRecordedLevels ==
    IF cal_pc = "idle" THEN {}
    ELSE IF cal_k > n_params THEN 1..Len(alphas)
    ELSE 1..(cal_i - 1)

\* C1: every value calibration_error returns lies in [0, 1]; at every level
\* of the grid the empirical coverage is a fraction in [0, 1] and its
\* absolute gap to the nominal level is at most 1.
C1_CalErrInUnitInterval ==
    /\ \A k \in DOMAIN cal_errs : cal_errs[k] >= 0 /\ cal_errs[k] <= Milli
    /\ \A j \in CalRecordedLevels :
        /\ alphas_in[j][1] >= 0
        /\ alphas_in[j][1] <= alphas_in[j][2]
        /\ alphas_in[j][2] = n_test
        /\ DiffAlphas(alphas, alphas_in, AlphaDen(alpha_resolution))[j]
              <= AlphaDen(alpha_resolution) * n_test

\* C1 witness: a finished call on two test instances, both counted as
\* inliers at some level, with a non-zero calibration error.
C1_Witness ==
    /\ cal_pc = "done"
    /\ n_test = 2
    /\ \E j \in 1..Len(alphas) : alphas_in[j][1] = 2
    /\ \E k \in DOMAIN cal_errs : cal_errs[k] > 0

EvenlySpaced(s) ==
    /\ \A j \in 1..(Len(s) - 1) : s[j] < s[j + 1]
    /\ \A j \in 1..(Len(s) - 2) : s[j + 1] - s[j] = s[j + 2] - s[j + 1]

\* the level a/AlphaDen is 0.01, is 1.0
IsAlphaStart(a) == a * AlphaUnit = AlphaStart * AlphaDen(alpha_resolution)
IsAlphaStop(a) == a * AlphaUnit = AlphaStop * AlphaDen(alpha_resolution)

\* C7 as stated: for every resolution >= 1 the grid has `resolution` evenly
\* spaced levels and contains both 0.01 and 1.0; with resolution 1 the single
\* level is 1.0.
C7_GridHasBothEndpoints ==
    cal_pc # "idle" =>
        /\ Len(alphas) = alpha_resolution
        /\ EvenlySpaced(alphas)
        /\ \E j \in 1..Len(alphas) : IsAlphaStart(alphas[j])
        /\ \E j \in 1..Len(alphas) : IsAlphaStop(alphas[j])
        /\ (alpha_resolution = 1 => IsAlphaStop(alphas[1]))

\* C7 amended: the grid has `resolution` evenly spaced levels starting at
\* 0.01; it ends at 1.0 when resolution >= 2, and with resolution 1 the
\* single level is 0.01, not 1.0.
C7_GridAmended ==
    cal_pc # "idle" =>
        /\ Len(alphas) = alpha_resolution
        /\ EvenlySpaced(alphas)
        /\ IsAlphaStart(alphas[1])
        /\ (alpha_resolution >= 2 => IsAlphaStop(alphas[Len(alphas)]))
        /\ (alpha_resolution = 1 => ~IsAlphaStop(alphas[1]))

\* C7 witness: a finished call whose grid has the single level 0.01.
C7_Witness ==
    /\ cal_pc = "done"
    /\ alpha_resolution = 1
    /\ IsAlphaStart(alphas[1])

\* the r-th smallest of the draws of instance t for parameter k, by counting
OwnOrderStat(t, k, r) ==
    CHOOSE v \in Values :
        /\ Cardinality({s \in 1..n_samples : theta_samples[s][t][k] < v}) < r
        /\ r <= Cardinality({s \in 1..n_samples : theta_samples[s][t][k] <= v})

\* the q-quantile (q in thousandths) of instance t's own draws for parameter
\* k, in thousandths: the weighted mean of the two neighbouring order statistics
OwnQuantile(t, k, q) ==
    LET pos == q * (n_samples - 1)
        below == pos \div Milli + 1
        above == IF below < n_samples THEN below + 1 ELSE below
        w == pos % Milli
    IN  (Milli - w) * OwnOrderStat(t, k, below) + w * OwnOrderStat(t, k, above)

OwnLower(t, k, j) ==
    OwnQuantile(t, k, LowerLevel(alphas[j], AlphaDen(alpha_resolution)))
OwnUpper(t, k, j) ==
    OwnQuantile(t, k, UpperLevel(alphas[j], AlphaDen(alpha_resolution)))

\* C8: at every level, a test instance is counted as an inlier iff its true
\* value is strictly between the lower and upper quantile of that instance's
\* own draws for the parameter; the coverage is the count divided by n_test.
C8_InlierStrictOwnQuantiles ==
    \A j \in CalRecordedLevels :
        alphas_in[j] =
            << Cardinality({t \in 1..n_test :
                    /\ OwnLower(t, CalRecordedParam, j) < Milli * theta_test[t][CalRecordedParam]
                    /\ Milli * theta_test[t][CalRecordedParam] < OwnUpper(t, CalRecordedParam, j)}),
               n_test >>

\* C8 witness: at a recorded level one instance's true value equals one of
\* its quantile bounds and is not counted, while the other instance is counted.
C8_Witness ==
    /\ n_test = 2
    /\ \E j \in CalRecordedLevels :
        /\ alphas_in[j] = <<1, 2>>
        /\ \E t \in 1..n_test :
            \/ Milli * theta_test[t][CalRecordedParam] = OwnLower(t, CalRecordedParam, j)
            \/ Milli * theta_test[t][CalRecordedParam] = OwnUpper(t, CalRecordedParam, j)
-----------------------------------------------------------------------------
(* Properties of rmse, R2 and compute_metrics, checked under SpecMetrics. *)

\* the number of times names[p] occurs among names[1..p]
OccurrencesUpTo(names, p) == Cardinality({q \in 1..p : names[q] = names[p]})
Occurrences(names, name) == Cardinality({q \in DOMAIN names : names[q] = name})
Distinct(names) == \A p, q \in DOMAIN names : names[p] = names[q] => p = q

\* the sweep axis is n_min, n_min + 1, ..., n_max
SweepAxisIs(axis) ==
    /\ Len(axis) = n_max - n_min + 1
    /\ \A j \in 1..Len(axis) : axis[j] = n_min + j - 1

\* C2 as stated: when compute_metrics returns (n_min <= n_max, any list of
\* names), the sweep axis is n_min..n_max and every metric holds, for every
\* parameter name, exactly one value per swept condition, in sweep order.
C2_OneValuePerCondition ==
    (sw_pc = "done" /\ n_min <= n_max) =>
        /\ SweepAxisIs(sw_ret[1])
        /\ \A m \in MetricNames : \A p \in DOMAIN param_names :
            /\ Len(sw_ret[2][m][param_names[p]]) = Len(sw_ret[1])
            /\ \A j \in 1..Len(sw_ret[1]) :
                sw_ret[2][m][param_names[p]][j]
                    = SweepValuesOf(sw_data[j][1], sw_data[j][2], p)[m]

\* C2 amended: the same for lists of pairwise distinct names; in general a
\* name that occurs c times in param_names receives c values per swept
\* condition, those of its positions in list order.
C2_OneValuePerConditionDistinct ==
    (sw_pc = "done" /\ n_min <= n_max) =>
        /\ SweepAxisIs(sw_ret[1])
        /\ DOMAIN sw_ret[2] = MetricNames
        /\ \A m \in MetricNames :
            /\ DOMAIN sw_ret[2][m] = NamesOf(param_names)
            /\ \A p \in DOMAIN param_names :
                LET name == param_names[p]
                    c == Occurrences(param_names, name)
                IN  /\ Len(sw_ret[2][m][name]) = c * Len(sw_ret[1])
                    /\ Distinct(param_names) => Len(sw_ret[2][m][name]) = Len(sw_ret[1])
                    /\ \A j \in 1..Len(sw_ret[1]) :
                        sw_ret[2][m][name][(j - 1) * c + OccurrencesUpTo(param_names, p)]
                            = SweepValuesOf(sw_data[j][1], sw_data[j][2], p)[m]

\* C2 witness: a returned sweep over two conditions and two distinct names
\* whose recorded values differ between the conditions.
C2_Witness ==
    /\ sw_pc = "done"
    /\ Len(sw_ret[1]) = 2
    /\ param_names = <<"a", "b">>
    /\ sw_ret[2]["nrmse"]["a"][1] # sw_ret[2]["nrmse"]["a"][2]

\* C3: a failure of simulate_fun, transform or model.sample propagates and
\* stops the sweep at that condition: nothing is returned, no later condition
\* is simulated or sampled, the failing call is not made again, and no step
\* of the sweep follows.
C3_FailureAbortsSweep ==
    sw_exc # "none" =>
        /\ sw_pc = "raised"
        /\ sw_ret = <<>>
        /\ sw_idx <= Len(ns)
        /\ sim_calls = SubSeq(ns, 1, sw_idx)
        /\ sample_calls = (IF sw_exc \in {"simulate_fun", "transform"}
                           THEN sw_idx - 1 ELSE sw_idx)
        /\ Len(sw_data) = sw_idx - 1
        /\ ~ENABLED MetricsNext

\* C3 witness: model.sample failed at the first of two conditions.
C3_Witness ==
    /\ sw_exc = "sample"
    /\ sw_idx = 1
    /\ Len(ns) = 2

\* the posterior mean of parameter k equals the truth for every test instance
MeansEqualTruth(k) == \A t \in 1..n_test : PosteriorMean[t][k] = RInt(theta_test[t][k])

\* the true values of parameter k are all identical (their range is zero)
ZeroRange(k) == \A t, u \in 1..n_test : theta_test[t][k] = theta_test[u][k]

\* C4 as stated: whenever the posterior mean equals truth exactly for every
\* test instance and parameter, R2 returns exactly 1.0 for every parameter.
C4_PerfectR2IsOne ==
    (point_op = "R2" /\ \A k \in 1..n_params : MeansEqualTruth(k)) =>
        \A k \in 1..n_params : point_out[k] = Finite(RInt(1))

\* C4 amended: with at least two test instances R2 returns exactly 1.0 for
\* every parameter; with a single test instance it returns 1.0 when r2_score
\* has no fewer-than-two-samples check and NaN when it has.
C4_PerfectR2IsOneTwoInstances ==
    (point_op = "R2" /\ \A k \in 1..n_params : MeansEqualTruth(k)) =>
        \A k \in 1..n_params :
            point_out[k] = IF n_test < 2 /\ r2_guard THEN NaN ELSE Finite(RInt(1))

\* C4 witness: R2 was called on two test instances with two differing draws
\* each whose means equal the truth, the truth being the same for both.
C4_Witness ==
    /\ point_op = "R2"
    /\ n_test = 2
    /\ n_samples = 2
    /\ \A t \in 1..n_test : theta_samples[1][t][1] # theta_samples[2][t][1]
    /\ \A k \in 1..n_params : MeansEqualTruth(k)
    /\ ZeroRange(1)

\* entry of the recorded nrmse sequence for position p at swept condition j
RecordedNrmse(j, p) ==
    metrics["nrmse"][param_names[p]]
        [(j - 1) * Occurrences(param_names, param_names[p]) + OccurrencesUpTo(param_names, p)]

SweepZeroRange(j, p) ==
    \A t, u \in 1..Len(sw_data[j][1]) : sw_data[j][1][t][p] = sw_data[j][1][u][p]

\* C6 as stated: a zero range of the true values of parameter k makes
\* rmse(normalized=True) and the nrmse of compute_metrics non-finite, and
\* all-identical true values make R2 non-finite, in each case without an error.
C6_DegenerateNonFinite ==
    /\ point_op = "nrmse" =>
        \A k \in 1..n_params : ZeroRange(k) => point_out[k].kind # "finite"
    /\ point_op = "R2" =>
        \A k \in 1..n_params : ZeroRange(k) => point_out[k].kind # "finite"
    /\ sw_pc \in {"simulate", "done"} =>
        \A j \in 1..Len(sw_data) : \A p \in DOMAIN param_names :
            SweepZeroRange(j, p) => RecordedNrmse(j, p).kind # "finite"

\* C6 amended: a zero range makes rmse(normalized=True) and the nrmse of
\* compute_metrics non-finite without an error (NaN when the RMSE is 0, inf
\* otherwise); all-identical true values make R2 return, without an error,
\* the finite value 1.0 when the posterior means equal the truth and 0.0
\* otherwise, and NaN only for a single test instance under an r2_score that
\* has the fewer-than-two-samples check.
C6_DegenerateNrmseNonFiniteR2Finite ==
    /\ point_op = "nrmse" =>
        \A k \in 1..n_params : ZeroRange(k) =>
            point_out[k] = IF MeansEqualTruth(k) THEN NaN ELSE Inf
    /\ point_op = "R2" =>
        \A k \in 1..n_params : ZeroRange(k) =>
            point_out[k] = IF n_test < 2 /\ r2_guard THEN NaN
                           ELSE IF MeansEqualTruth(k) THEN Finite(RInt(1))
                           ELSE Finite(RInt(0))
    /\ sw_pc \in {"simulate", "done"} =>
        \A j \in 1..Len(sw_data) : \A p \in DOMAIN param_names :
            SweepZeroRange(j, p) => RecordedNrmse(j, p).kind \in {"nan", "inf"}

\* C6 witness: rmse(normalized=True) was called on two test instances with
\* identical true values and a posterior mean that misses them.
C6_Witness ==
    /\ point_op = "nrmse"
    /\ n_test = 2
    /\ ZeroRange(1)
    /\ ~MeansEqualTruth(1)
    /\ point_out[1] = Inf

-----------------------------------------------------------------------------
(* Properties of resimulation_error, checked under SpecResim. *)

\* C5: with a deterministic simulator and a posterior mean equal to the truth,
\* resimulation_error returns exactly 0: the simulator is called exactly
\* twice, first with the truth and then with the posterior mean, the two
\* outputs coincide for every test instance, every per-instance distance is 0
\* and so is their median.
C5_ResimulationErrorZero ==
    (/\ resim_pc = "done"
     /\ simulator \in Deterministic
     /\ \A k \in 1..n_params : MeansEqualTruth(k)) =>
        /\ resim_out = <<RInt(0)>>
        /\ Len(sim_log) = 2
        /\ sim_log[1] = TruthMatrix
        /\ sim_log[2] = MeanOverSamples(theta_samples)
        /\ \A t \in 1..n_test : X_test_true[t] = X_test_est[t]
        /\ \A t \in 1..n_test : Mmds[t] = 0

\* C5 witness: a finished call with the parameter-dependent deterministic
\* simulator, two test instances and two differing draws whose mean is the truth.
C5_Witness ==
    /\ resim_pc = "done"
    /\ simulator = "copy"
    /\ n_test = 2
    /\ n_samples = 2
    /\ theta_samples[1] # theta_samples[2]
    /\ \A k \in 1..n_params : MeansEqualTruth(k)
    /\ resim_out = <<RInt(0)>>

-----------------------------------------------------------------------------
(* Properties of the training loops, checked under SpecTrain. *)

\* the number of iterations among 1..n whose batch was non-empty
NonEmptyUpTo(n) == Cardinality({j \in 1..n : batches[j]})

\* C9: the two loss lists have the same length, the number of iterations
\* processed so far whose batch was non-empty; an empty batch records no
\* loss, makes no forward pass and no optimizer step and does not advance
\* the progress bar; in a non-empty iteration the losses are recorded before
\* the optimizer step is applied.
C9_LossesTrackNonEmptyIterations ==
    /\ Len(losses.ml_loss) = Len(losses.decay)
    /\ train_pc \in {"top", "done"} =>
        /\ Len(losses.ml_loss) = NonEmptyUpTo(it - 1)
        /\ fwd_count = NonEmptyUpTo(it - 1)
        /\ opt_steps = NonEmptyUpTo(it - 1)
        /\ pbar_n = NonEmptyUpTo(it - 1)
    /\ train_pc = "store" =>
        /\ batches[it]
        /\ fwd_count = NonEmptyUpTo(it)
        /\ Len(losses.ml_loss) = NonEmptyUpTo(it) - 1
        /\ opt_steps = NonEmptyUpTo(it) - 1
    /\ train_pc = "backprop" =>
        /\ Len(losses.ml_loss) = NonEmptyUpTo(it)
        /\ losses.ml_loss[Len(losses.ml_loss)] = cur_loss[1]
        /\ losses.decay[Len(losses.decay)] = cur_loss[2]
        /\ opt_steps = NonEmptyUpTo(it) - 1
    /\ train_pc \in {"progress", "raised"} =>
        /\ Len(losses.ml_loss) = NonEmptyUpTo(it)
        /\ opt_steps = NonEmptyUpTo(it)
        /\ pbar_n = NonEmptyUpTo(it) - 1
    /\ train_pc = "save" =>
        /\ Len(losses.ml_loss) = NonEmptyUpTo(it)
        /\ opt_steps = NonEmptyUpTo(it)
        /\ pbar_n = NonEmptyUpTo(it)

\* C9 witness: a finished loop that met an empty batch between two non-empty ones.
C9_Witness ==
    /\ train_pc = "done"
    /\ iterations >= 3
    /\ batches[1] /\ ~batches[2] /\ batches[3]
    /\ Len(losses.ml_loss) = NonEmptyUpTo(iterations)
    /\ losses.ml_loss[1] # losses.ml_loss[2]

\* the iterations among 1..n that are multiples of save_any with a non-empty
\* batch, in increasing order
RECURSIVE SavePoints(_)
SavePoints(n) ==
    IF n = 0 THEN <<>>
    ELSE IF n % save_any = 0 /\ batches[n] THEN Append(SavePoints(n - 1), n)
    ELSE SavePoints(n - 1)

====
